---------------------------- MODULE Spec2Model ----------------------------
(***************************************************************************)
(* Model of the homework status bot (src/homework.py): the startup check   *)
(* of the environment, the poll loop of main() and the functions it calls  *)
(* (get_api_answer, check_response, parse_status, send_message).           *)
(*                                                                         *)
(* Python values are records [t, s]: t is the Python type name of the      *)
(* value and s is str(value).  The Russian message texts of the source are *)
(* written in Latin transliteration, since the module is ASCII.            *)
(***************************************************************************)
EXTENDS Integers, Sequences, FiniteSets, TLC

\* Longest `homeworks` list the API answers with.
MaxLen == 2
\* The clock and the API's current_date range over 1..MaxDate.
MaxDate == 2

VARIABLES
    pc,          \* "start", "exited", "fetching", "sleeping", "crashed"
    environ,     \* the names of the environment variables that are set
    exit_code,   \* <<>> while the process runs, <<n>> after sys.exit(n)
    timestamp,   \* main's local `timestamp` (the watermark)
    sent_msg,    \* main's local `sent_msg`
    payload,     \* from_date of the request issued in the cycle observed
    reply,       \* what the HTTP service answered in the cycle observed
    error,       \* the exception main's handler caught in the cycle observed
    attempts,    \* the bot.send_message calls of the cycle observed
    prev_text    \* failure text sent in the preceding cycle ("" if none)

vars == <<pc, environ, exit_code, timestamp, sent_msg, payload, reply,
          error, attempts, prev_text>>

---------------------------------------------------------------------------
(* Python values *)

Val(t, s) == [t |-> t, s |-> s]
Unbound == Val("unbound", "")
NoExc == [type |-> "", msg |-> ""]
Exc(type, msg) == [type |-> type, msg |-> msg]

\* str(type(x)) as the f-strings of the source print it.
TypeStr(t) == "<class '" \o t \o "'>"

\* str(error): a KeyError prints the repr of its argument, the other
\* exception classes print the argument itself.
ErrorStr(e) == IF e.type = "KeyError" THEN "'" \o e.msg \o "'" ELSE e.msg

---------------------------------------------------------------------------
(* Module constants of homework.py *)

ENDPOINT == "https://practicum.yandex.ru/api/user_api/homework_statuses/"

HOMEWORK_VERDICTS ==
    [approved  |-> "Rabota proverena: revyueru vsyo ponravilos. Ura!",
     reviewing |-> "Rabota vzyata na proverku revyuerom.",
     rejected  |-> "Rabota proverena: u revyuera est zamechaniya."]

EnvNames == {"TELEGRAM_TOKEN", "PRACTICUM_TOKEN", "TELEGRAM_CHAT_ID"}

\* The status code get_api_answer expects.
HTTP_OK == 200

---------------------------------------------------------------------------
(* The inputs: what the services answer *)

Dates == {Val("int", ToString(n)) : n \in 1..MaxDate}
\* current_date as the JSON body may carry it.
CurrentDates == Dates \cup {Val("str", "soon"), Val("NoneType", "None")}

Statuses == {Val("str", "approved"), Val("str", "reviewing"),
             Val("str", "rejected"), Val("str", "lost"),
             Val("list", "[]")}

Homework(t, keys, name, status) ==
    [t |-> t, keys |-> keys, homework_name |-> name, status |-> status]

\* The records a `homeworks` list may start with.
Items ==
    {Homework("dict", {"homework_name", "status"}, "X", st) : st \in Statuses}
    \cup {Homework("dict", {"status"}, "", Val("str", "approved")),
          Homework("dict", {"homework_name"}, "X", Unbound),
          Homework("dict", {}, "", Unbound),
          Homework("str", {}, "", Unbound)}

\* The records that may follow the first one.
TailItems ==
    {Homework("dict", {"homework_name", "status"}, "Y", Val("str", "rejected")),
     Homework("dict", {"homework_name"}, "Y", Unbound)}

RECURSIVE Tails(_)
Tails(n) == IF n = 0 THEN {<<>>}
            ELSE LET S == Tails(n - 1)
                 IN S \cup {<<x>> \o s : x \in TailItems, s \in {q \in S : Len(q) = n - 1}}

Lists == {<<>>} \cup {<<x>> \o s : x \in Items, s \in Tails(MaxLen - 1)}

\* The value under the key `homeworks`: a list, or a JSON object or null.
HomeworksValues ==
    {[t |-> "list", items |-> l] : l \in Lists}
    \cup {[t |-> "dict", items |-> <<>>], [t |-> "NoneType", items |-> <<>>]}

Body(t, keys, hw, cd) ==
    [t |-> t, keys |-> keys, homeworks |-> hw, current_date |-> cd]
NoHomeworks == [t |-> "unbound", items |-> <<>>]
NoBody == Body("unbound", {}, NoHomeworks, Unbound)

\* The decoded JSON bodies.
Bodies ==
    {Body("dict", {"homeworks", "current_date"}, hw, cd) :
        hw \in HomeworksValues, cd \in CurrentDates}
    \cup {Body("dict", {"homeworks"}, [t |-> "list", items |-> <<>>], Unbound),
          Body("dict", {"current_date"}, NoHomeworks, Val("int", "1")),
          Body("dict", {}, NoHomeworks, Unbound),
          Body("list", {}, NoHomeworks, Unbound),
          Body("str", {}, NoHomeworks, Unbound)}

Reply(exc, code, decodable, body) ==
    [exc |-> exc, status_code |-> code, decodable |-> decodable, body |-> body]
NoReply == Reply(FALSE, 0, FALSE, NoBody)

\* What requests.get does: raise, or return a response.
Replies ==
    {Reply(TRUE, 0, FALSE, NoBody),
     Reply(FALSE, 503, FALSE, NoBody),
     Reply(FALSE, HTTP_OK, FALSE, NoBody)}
    \cup {Reply(FALSE, HTTP_OK, TRUE, b) : b \in Bodies}

\* What bot.send_message does: return, raise telegram.TelegramError (network,
\* auth, rate limit are subclasses of it), or raise another exception.
Deliveries == {"ok", "telegram_error", "other_error"}

---------------------------------------------------------------------------
(* check_tokens *)

\* check_tokens as it would be with TELEGRAM_CHAT_ID left out of the table.
MissedVarsTokensOnly(env) == {"TELEGRAM_TOKEN", "PRACTICUM_TOKEN"} \ env

\* The names check_tokens collects in missed_vars.
MissedVars(env) == EnvNames \ env

---------------------------------------------------------------------------
(* send_message *)

\* Whether the exception bot.send_message raised is caught by
\* `except telegram.TelegramError`.
Caught(delivery) == delivery = "telegram_error"

\* The exception send_message lets through to its caller (NoExc when it
\* returns).
SendMessage(message, delivery) ==
    IF delivery = "ok" \/ Caught(delivery)
    THEN NoExc
    ELSE Exc("Exception", "delivery failed")

Attempt(message, delivery) ==
    [message |-> message, delivery |-> delivery,
     raised |-> SendMessage(message, delivery) # NoExc]

---------------------------------------------------------------------------
(* get_api_answer *)

Result(exc, value) == [exc |-> exc, value |-> value]

GetApiAnswer(ts, r) ==
    IF r.exc
    THEN Result(Exc("RequestError",
                    "Oshibka pri otpravke zaprosa: connection refused."
                    \o "Adres resursa: " \o ENDPOINT \o "."
                    \o "Metod zaprosa: GET."), NoBody)
    ELSE IF r.status_code # HTTP_OK
    THEN Result(Exc("WrongStatusCodeError",
                    "Zapros k adresu: " \o ENDPOINT \o "."
                    \o "Metod zaprosa: GET."
                    \o "Status otveta: " \o ToString(r.status_code) \o ". "
                    \o "Ozhidaemyi kod: 200"), NoBody)
    ELSE IF ~r.decodable
    THEN Result(Exc("WrongResponseError",
                    "API vernul nevernyi json! Otvet: <html>, "
                    \o "oshibka: Expecting value"), NoBody)
    ELSE Result(NoExc, r.body)

---------------------------------------------------------------------------
(* check_response *)

\* The type check of `homeworks` as it would be if it accepted any value.
IsListAny(v) == TRUE

\* isinstance(response['homeworks'], list)
IsList(v) == v.t = "list"

CheckResponse(response) ==
    IF response.t # "dict"
    THEN Exc("TypeError",
             "Tip poluchennyh dannyh: " \o TypeStr(response.t) \o ". "
             \o "Ozhidaemyi tip dannyh: dict.")
    ELSE IF "homeworks" \notin response.keys
    THEN Exc("KeyError",
             "V otvete API otsutstvuet ozhidaemyi klyuch:" \o "\"homeworks\".")
    ELSE IF "current_date" \notin response.keys
    THEN Exc("KeyError",
             "V otvete API otsutstvuet ozhidaemyi klyuch:" \o "\"current_date\".")
    ELSE IF ~IsList(response.homeworks)
    THEN Exc("TypeError",
             "Tip poluchennyh dannyh: " \o TypeStr(response.homeworks.t) \o ". "
             \o "Ozhidaemyi tip dannyh: list.")
    ELSE NoExc

---------------------------------------------------------------------------
(* parse_status *)

\* Python can hash the value (a dict lookup of a list or a dict raises).
Hashable(v) == v.t \notin {"list", "dict"}

Parsed(exc, text) == [exc |-> exc, text |-> text]

ParseStatus(homework) ==
    IF homework.t # "dict"
    THEN Parsed(Exc("TypeError",
                    "Poluchen nepravilnyi tip dlya homework: "
                    \o TypeStr(homework.t) \o " "
                    \o "Ozhidaemyi tip dannyh: dict."), "")
    ELSE IF "homework_name" \notin homework.keys
    THEN Parsed(Exc("KeyError",
                    "V otvete API otsutstvuyut ozhidaemye klyuchi:"
                    \o "\"homework_name\"."), "")
    ELSE IF "status" \notin homework.keys
    THEN Parsed(Exc("KeyError",
                    "V otvete API otsutstvuyut ozhidaemye klyuchi:"
                    \o "\"status\"."), "")
    ELSE IF ~Hashable(homework.status)
    THEN Parsed(Exc("TypeError",
                    "unhashable type: '" \o homework.status.t \o "'"), "")
    ELSE IF ~(homework.status.t = "str"
              /\ homework.status.s \in DOMAIN HOMEWORK_VERDICTS)
    THEN Parsed(Exc("UnexpectedStatusError",
                    "Poluchen neozhidannyi status domashnei raboty: "
                    \o homework.status.s \o "."), "")
    ELSE Parsed(NoExc,
                "Izmenilsya status proverki raboty \""
                \o homework.homework_name \o "\". "
                \o HOMEWORK_VERDICTS[homework.status.s])

---------------------------------------------------------------------------
(* main: one iteration of `while True` *)

\* response[key] of line 168 and 169.
GetItem(response, key) ==
    IF response.t # "dict"
    THEN Result(Exc("TypeError", "indices must be integers or slices, not str"),
                Unbound)
    ELSE IF key \notin response.keys
    THEN Result(Exc("KeyError", key), Unbound)
    ELSE Result(NoExc, response[key])

\* The test of line 169 as it would be written `is not None`.
TruthyNotNone(v) == v.t # "NoneType"

\* `if response['homeworks']:` a list, a dict, None are true iff non-empty.
Truthy(v) == Len(v.items) > 0

\* response['homeworks'][0]
First(v) ==
    IF v.t = "list" /\ Len(v.items) > 0
    THEN Result(NoExc, v.items[1])
    ELSE IF v.t = "list"
    THEN Result(Exc("IndexError", "list index out of range"), Unbound)
    ELSE IF v.t = "dict"
    THEN Result(Exc("KeyError", "0"), Unbound)
    ELSE Result(Exc("TypeError", "object is not subscriptable"), Unbound)

\* The watermark after line 168.
Advance(ts, current_date) == current_date

\* The handler as it would be without line 178: the last text sent is kept.
HandlerSentMsgKept(sent) == sent

\* The value `sent_msg` is compared with at line 179: line 178 clears it.
HandlerSentMsg(sent) == ""

Outcome(ts, exc, atts) == [timestamp |-> ts, exc |-> exc, attempts |-> atts]

\* The try block, lines 165-174: the watermark, the exception that leaves the
\* block (NoExc if none) and the deliveries attempted.  d is the sequence of
\* what bot.send_message does at each call of the cycle.
MainTry(ts, r, d) ==
    LET api == GetApiAnswer(ts, r) IN
    IF api.exc # NoExc THEN Outcome(ts, api.exc, <<>>)
    ELSE
    LET response == api.value
        chk == CheckResponse(response) IN
    IF chk # NoExc THEN Outcome(ts, chk, <<>>)
    ELSE
    LET cd == GetItem(response, "current_date") IN
    IF cd.exc # NoExc THEN Outcome(ts, cd.exc, <<>>)
    ELSE
    LET ts2 == Advance(ts, cd.value)
        hw == GetItem(response, "homeworks") IN
    IF hw.exc # NoExc THEN Outcome(ts2, hw.exc, <<>>)
    ELSE IF ~Truthy(hw.value) THEN Outcome(ts2, NoExc, <<>>)
    ELSE
    LET homework == First(hw.value) IN
    IF homework.exc # NoExc THEN Outcome(ts2, homework.exc, <<>>)
    ELSE
    LET ps == ParseStatus(homework.value) IN
    IF ps.exc # NoExc THEN Outcome(ts2, ps.exc, <<>>)
    ELSE Outcome(ts2, SendMessage(ps.text, d[1]), <<Attempt(ps.text, d[1])>>)

\* The try block followed by the handler, lines 175-181.  crashed: an
\* exception left the handler, and with it main.
MainIteration(ts, sent, r, d) ==
    LET tr == MainTry(ts, r, d) IN
    IF tr.exc = NoExc
    THEN [timestamp |-> tr.timestamp, error |-> NoExc, attempts |-> tr.attempts,
          sent_msg |-> sent, crashed |-> FALSE]
    ELSE
    LET message == "Sboy v rabote programmy: " \o ErrorStr(tr.exc)
        cleared == HandlerSentMsg(sent)
        a == Attempt(message, d[Len(tr.attempts) + 1]) IN
    IF message # cleared
    THEN [timestamp |-> tr.timestamp, error |-> tr.exc,
          attempts |-> Append(tr.attempts, a),
          sent_msg |-> IF a.raised THEN cleared ELSE message,
          crashed |-> a.raised]
    ELSE [timestamp |-> tr.timestamp, error |-> tr.exc, attempts |-> tr.attempts,
          sent_msg |-> cleared, crashed |-> FALSE]

---------------------------------------------------------------------------
(* The state machine *)

Init ==
    /\ pc = "start"
    /\ environ \in SUBSET EnvNames
    /\ exit_code = <<>>
    /\ timestamp = Unbound
    /\ sent_msg = "<unbound>"
    /\ payload = Unbound
    /\ reply = NoReply
    /\ error = NoExc
    /\ attempts = <<>>
    /\ prev_text = ""

\* main, lines 161-163: check_tokens, then the clock is read.
Startup ==
    /\ pc = "start"
    /\ IF MissedVars(environ) = {}
       THEN /\ pc' = "fetching"
            /\ timestamp' \in Dates
            /\ exit_code' = exit_code
       ELSE /\ pc' = "exited"
            /\ exit_code' = <<1>>
            /\ timestamp' = timestamp
    /\ UNCHANGED <<environ, sent_msg, payload, reply, error, attempts, prev_text>>

\* main, lines 165-181: one pass through the try statement.
Iteration ==
    /\ pc = "fetching"
    /\ \E r \in Replies, d1 \in Deliveries, d2 \in Deliveries :
         LET it == MainIteration(timestamp, sent_msg, r, <<d1, d2>>) IN
         /\ payload' = timestamp
         /\ reply' = r
         /\ timestamp' = it.timestamp
         /\ error' = it.error
         /\ attempts' = it.attempts
         /\ sent_msg' = it.sent_msg
         /\ pc' = IF it.crashed THEN "crashed" ELSE "sleeping"
    /\ UNCHANGED <<environ, exit_code, prev_text>>

\* main, line 182: time.sleep(RETRY_PERIOD) returns and the loop goes round.
\* What was observed of the cycle is dropped; only its failure text is kept.
Sleep ==
    /\ pc = "sleeping"
    /\ pc' = "fetching"
    /\ prev_text' = IF error # NoExc /\ attempts # <<>>
                    THEN attempts[Len(attempts)].message
                    ELSE ""
    /\ payload' = Unbound
    /\ reply' = NoReply
    /\ error' = NoExc
    /\ attempts' = <<>>
    /\ UNCHANGED <<environ, exit_code, timestamp, sent_msg>>

Next == Startup \/ Iteration \/ Sleep

Spec == Init /\ [][Next]_vars

---------------------------------------------------------------------------
(* What a state shows of the cycle observed *)

\* The cycle has run to its end: the loop sleeps, or main was left.
CycleEnded == pc \in {"sleeping", "crashed"}

\* get_api_answer got a 200 answer with a decodable body.
Fetched == ~reply.exc /\ reply.status_code = 200 /\ reply.decodable

\* The body is a mapping with both keys and a list under `homeworks`.
WellShaped ==
    /\ reply.body.t = "dict"
    /\ {"homeworks", "current_date"} \subseteq reply.body.keys
    /\ reply.body.homeworks.t = "list"

Validated == Fetched /\ WellShaped

Records == reply.body.homeworks.items

\* The first record is a mapping with both keys.
FirstIsRecord ==
    /\ Records # <<>>
    /\ Records[1].t = "dict"
    /\ {"homework_name", "status"} \subseteq Records[1].keys

KnownStatus(st) == st \in {Val("str", "approved"), Val("str", "reviewing"),
                           Val("str", "rejected")}

FailureText(e) == "Sboy v rabote programmy: " \o ErrorStr(e)

FailureKinds == {"RequestError", "WrongStatusCodeError", "WrongResponseError",
                 "TypeError", "KeyError", "UnexpectedStatusError"}

---------------------------------------------------------------------------
(* The claims *)

\* C1: when parse_status fails on the first record of a fetched and
\* validated response, the cycle takes the error path and the watermark
\* after the cycle equals the watermark before it.
C1_FormatterFailureKeepsWatermark ==
    (pc = "sleeping" /\ Validated /\ Records # <<>>
        /\ ParseStatus(Records[1]).exc # NoExc)
    => (error = ParseStatus(Records[1]).exc /\ timestamp = payload)

\* C2: in a cycle in which get_api_answer fails (transport error, status
\* other than 200, undecodable body) or check_response fails (body not a
\* mapping, a key missing, `homeworks` not a list), the watermark at the
\* sleep phase equals the watermark the request was made with.
C2_FetchOrValidateFailureKeepsWatermark ==
    (pc = "sleeping" /\ ~Validated) => (error # NoExc /\ timestamp = payload)

\* A response with both keys whose `homeworks` is not a list and whose
\* current_date differs from the watermark was refused, watermark kept.
C2_Witness ==
    /\ pc = "sleeping"
    /\ Fetched
    /\ reply.body.t = "dict"
    /\ {"homeworks", "current_date"} \subseteq reply.body.keys
    /\ reply.body.homeworks.t # "list"
    /\ reply.body.current_date # payload
    /\ timestamp = payload

\* C3: send_message never lets a failure of the delivery call through to
\* its caller, whatever the failure is.
C3_SendMessageNeverPropagates ==
    \A i \in DOMAIN attempts : ~attempts[i].raised

\* C4: once the loop is entered no failure inside a cycle ends the process:
\* the loop is fetching or sleeping, never left.
C4_LoopNeverLeft ==
    pc \notin {"start", "exited"} => pc \in {"fetching", "sleeping"}

\* C5: the watermark is an integer in every state of the poll loop.
C5_WatermarkIsInteger ==
    pc \in {"fetching", "sleeping", "crashed"} => timestamp.t = "int"

\* C6: in a cycle where fetch and validation succeed and the first record
\* is well formed, exactly one notification is attempted, its text is the
\* formatter's output for the first record, and the watermark becomes the
\* response's current_date.
C6_OneStatusNotification ==
    (CycleEnded /\ Validated /\ FirstIsRecord /\ KnownStatus(Records[1].status))
    => /\ Len(attempts) = 1
       /\ attempts[1].message = ParseStatus(Records[1]).text
       /\ timestamp = reply.body.current_date

\* C7: in a cycle whose response passes validation with an empty
\* `homeworks` list the watermark becomes the response's current_date and
\* no notification is attempted, neither a status nor an error message.
C7_EmptyListAdvancesSilently ==
    (CycleEnded /\ Validated /\ Records = <<>>)
    => /\ pc = "sleeping"
       /\ timestamp = reply.body.current_date
       /\ attempts = <<>>
       /\ error = NoExc

\* An empty response moved the watermark to a new value without a message.
C7_Witness ==
    /\ pc = "sleeping"
    /\ Validated
    /\ Records = <<>>
    /\ timestamp = reply.body.current_date
    /\ timestamp # payload
    /\ attempts = <<>>

\* C8: a cycle in which one of the six kinds of failure is raised attempts
\* exactly one notification, carrying the failure text, also when the same
\* text was sent in the preceding cycle.
C8_EveryFailureNotifiedOnce ==
    (CycleEnded /\ error.type \in FailureKinds)
    => /\ Len(attempts) = 1
       /\ attempts[1].message = FailureText(error)

\* The failure text of this cycle is the one the preceding cycle sent.
C8_Witness ==
    /\ pc = "sleeping"
    /\ error.type \in FailureKinds
    /\ Len(attempts) = 1
    /\ attempts[1].message = FailureText(error)
    /\ attempts[1].message = prev_text

\* C9: with a required configuration value missing the process exits with
\* a non-zero status before the loop: no request, no notification, no
\* watermark; with all three present the loop is entered.
C9_MissingConfigurationExits ==
    /\ environ # EnvNames =>
          /\ pc \in {"start", "exited"}
          /\ timestamp = Unbound
          /\ payload = Unbound
          /\ reply = NoReply
          /\ attempts = <<>>
    /\ pc = "exited" => (exit_code # <<>> /\ exit_code[1] # 0)
    /\ environ = EnvNames => (pc # "exited" /\ exit_code = <<>>)

\* The process has exited with only the chat identifier missing.
C9_Witness ==
    /\ pc = "exited"
    /\ environ = {"TELEGRAM_TOKEN", "PRACTICUM_TOKEN"}
    /\ exit_code = <<1>>

\* C10: for a record with both keys whose status is outside approved,
\* reviewing, rejected, parse_status fails with UnexpectedStatusError, and
\* the only notification attempted in the cycle is the error notification.
C10_UnknownStatusIsUnexpectedStatusError ==
    (CycleEnded /\ Validated /\ FirstIsRecord /\ ~KnownStatus(Records[1].status))
    => /\ error.type = "UnexpectedStatusError"
       /\ Len(attempts) = 1
       /\ attempts[1].message = FailureText(error)

=============================================================================
